---- MODULE Spec2Model ----
(***************************************************************************)
(* mail-downloader: the fetch pipeline (imap.fetchMessages and the         *)
(* goroutine of main that drives it), the consumer loop of main, the       *)
(* metadata index (mailList: newMailList, addMail, save) and the handler   *)
(* dispatch loop of main.                                                  *)
(***************************************************************************)
EXTENDS Integers, Sequences, FiniteSets, TLC

(***************************************************************************)
(* Bounds of the model.                                                    *)
(***************************************************************************)
\* The mailbox holds the identifiers 1..MaxUid; a run requests a subset.
MaxUid == 2

\* Sentinel for "no value" (a nil error, a nil pointer, an absent file).
Nil == "nil"

UIDs == 1..MaxUid

(***************************************************************************)
(* Sequences helpers.                                                      *)
(***************************************************************************)
RECURSIVE SeqToSet(_)
SeqToSet(s) == IF s = <<>> THEN {} ELSE {Head(s)} \cup SeqToSet(Tail(s))

(***************************************************************************)
(* Byte contents, abstracted to what the content sniffer sees in them.     *)
(***************************************************************************)
\* A buffer is "" (empty), "plain", "html" or "pdf".

\* mimetype.Detect(body).String()
Sniff(d) ==
    CASE d = "html" -> "text/html; charset=utf-8"
      [] d = "pdf"  -> "application/pdf"
      [] OTHER      -> "text/plain; charset=utf-8"

\* mimetype.Detect(body).Extension()
SniffExtension(d) ==
    CASE d = "html" -> ".html"
      [] d = "pdf"  -> ".pdf"
      [] OTHER      -> ".txt"

(***************************************************************************)
(* File names are sequences of characters.                                 *)
(***************************************************************************)
\* imap.fixUtf: drops every utf8.RuneError character.
RECURSIVE fixUtf(_)
fixUtf(str) ==
    IF str = <<>> THEN <<>>
    ELSE IF Head(str) = "RuneError" THEN fixUtf(Tail(str))
         ELSE <<Head(str)>> \o fixUtf(Tail(str))

\* strings.ReplaceAll(filename, "/", "-")
ReplaceSlashes(str) == [i \in DOMAIN str |-> IF str[i] = "/" THEN "-" ELSE str[i]]

\* counter.Next(): the next ordinal of the per-message counter.
CounterNext(count) == count + 1

\* fmt.Sprintf("%d-%d%s", mail.Uid, count.Next(), mime.Extension())
SynthFilename(uid, ordinal, d) == <<ToString(uid), "-", ToString(ordinal), SniffExtension(d)>>

(***************************************************************************)
(* mail.fetchBody: the walk over the parts of one message.                 *)
(*   a part is [kind, read, data, filename, fnameErr]:                     *)
(*     kind      "inline" | "attachment" | "other" (the header's type)     *)
(*     read      outcome of io.ReadAll(part.Body): "ok" | "unexpectedEOF"  *)
(*               | "error"                                                 *)
(*     data      the bytes read                                            *)
(*     filename  header.Filename(), <<>> when the part declares none       *)
(*     fnameErr  whether header.Filename() returns an error                *)
(*   walkErr is the error NextPart returns after the last part, Nil for    *)
(*   io.EOF.                                                               *)
(***************************************************************************)
RECURSIVE fetchBodyWalk(_, _, _, _, _, _)
fetchBodyWalk(uid, parts, walkErr, bodies, attachments, count) ==
    IF parts = <<>>
    THEN IF walkErr = Nil
         THEN [Body |-> bodies, Attachments |-> attachments, Error |-> Nil]
         ELSE [Body |-> <<>>, Attachments |-> <<>>, Error |-> walkErr]
    ELSE LET part == Head(parts)
             rest == Tail(parts)
             fail(e) == [Body |-> <<>>, Attachments |-> <<>>, Error |-> e]
         IN  CASE part.kind = "inline" ->
                    IF part.read = "ok"
                    THEN fetchBodyWalk(uid, rest, walkErr, Append(bodies, part.data),
                                       attachments, count)
                    ELSE IF part.read = "unexpectedEOF"
                    THEN fetchBodyWalk(uid, rest, walkErr, bodies, attachments, count)
                    ELSE fail("read error")
               [] part.kind = "attachment" ->
                    IF part.fnameErr THEN fail("filename error")
                    ELSE IF part.read # "ok" THEN fail("read error")
                    ELSE LET unnamed  == part.filename = <<>>
                             count2   == IF unnamed THEN CounterNext(count) ELSE count
                             filename == IF unnamed
                                         THEN SynthFilename(uid, count2, part.data)
                                         ELSE part.filename
                         IN  fetchBodyWalk(uid, rest, walkErr, bodies,
                                 Append(attachments,
                                        [Filename |-> ReplaceSlashes(fixUtf(filename)),
                                         Body     |-> part.data,
                                         Mimetype |-> Sniff(part.data)]),
                                 count2)
               [] OTHER -> fetchBodyWalk(uid, rest, walkErr, bodies, attachments, count)

fetchBody(uid, parts, walkErr) == fetchBodyWalk(uid, parts, walkErr, <<>>, <<>>, 0)

\* `len(body) > 0`, the test of the two detection loops of fetchMessages.
HasBytesOrNot(buffer) == TRUE

HasBytes(buffer) == buffer # ""

\* The labels of the non-empty buffers of a list, in order
\* (the two detection loops of fetchMessages).
RECURSIVE DetectAll(_)
DetectAll(buffers) ==
    IF buffers = <<>> THEN <<>>
    ELSE IF HasBytes(Head(buffers)) THEN <<Sniff(Head(buffers))>> \o DetectAll(Tail(buffers))
         ELSE DetectAll(Tail(buffers))

AttachmentBodies(attachments) == [i \in DOMAIN attachments |-> attachments[i].Body]

(***************************************************************************)
(* Raw messages, as the Message Source delivers them.                      *)
(*   uid, subject, from   the envelope (from: the hosts of the addresses)  *)
(*   date                 the envelope's date, <<year, month, day>>         *)
(*   bsType               BodyStructure's type, Nil without BodyStructure  *)
(*   body                 "nil": GetBody returns nil                       *)
(*                        "bad": CreateReader fails and returns no reader  *)
(*                        "charset": CreateReader fails, returns a reader  *)
(*                        "ok"                                             *)
(*   hdrType              reader.Header.ContentType(), Nil on its error    *)
(*   parts, walkErr       see fetchBody                                    *)
(***************************************************************************)
InlinePart(d) == [kind |-> "inline", read |-> "ok", data |-> d,
                  filename |-> <<>>, fnameErr |-> FALSE]

AttachmentPart(name, d) == [kind |-> "attachment", read |-> "ok", data |-> d,
                            filename |-> name, fnameErr |-> FALSE]

RawMessage(uid, from, body, parts, walkErr) ==
    LET type == IF Len(parts) > 1 THEN "multipart/mixed" ELSE "text/plain"
    IN  [uid |-> uid, subject |-> "new", from |-> from, date |-> <<2024, 1, 2>>,
         bsType |-> type,
         body |-> body, hdrType |-> type, parts |-> parts, walkErr |-> walkErr]

\* The messages the mailbox may hold under one identifier.
RawMessages(uid) ==
    { RawMessage(uid, <<"b.com">>, "ok",
                 <<InlinePart("html"), AttachmentPart(<<"d", "/", "a">>, "pdf")>>, Nil),
      RawMessage(uid, <<>>, "ok", <<InlinePart("plain")>>, Nil),
      RawMessage(uid, <<"b.com">>, "ok", <<InlinePart("plain")>>, "malformed part"),
      RawMessage(uid, <<"b.com">>, "bad", <<>>, Nil),
      RawMessage(uid, <<"b.com">>, "charset", <<>>, Nil),
      RawMessage(uid, <<"b.com">>, "nil", <<>>, Nil) }

\* mail.fetchMeta and the BodyStructure lines of fetchMessages: a new mail.
NewMail(raw) ==
    [Uid |-> raw.uid, Subject |-> raw.subject, From |-> raw.from, Date |-> raw.date,
     Body |-> <<>>, Attachments |-> <<>>,
     MimeType |-> IF raw.bsType = Nil THEN "" ELSE raw.bsType,
     MultipartMimeType |-> <<>>, AttachmentMimeType |-> <<>>, Error |-> Nil]

\* No mail: a nil *mail.
NoMail == [Uid |-> 0, Error |-> Nil]

\* fetchMessages, one message whose reader CreateReader could not create.
MailOfCreateError(raw) == [NewMail(raw) EXCEPT !.Error = "create reader"]

\* fetchMessages, one message with a reader: fetchBody and the detection loops.
MailOfReader(raw) ==
    LET fb == fetchBody(raw.uid, raw.parts, raw.walkErr)
        m0 == NewMail(raw)
    IN  [m0 EXCEPT !.MimeType = IF raw.hdrType = Nil THEN m0.MimeType ELSE raw.hdrType,
                   !.Body = fb.Body,
                   !.Attachments = fb.Attachments,
                   !.Error = fb.Error,
                   !.MultipartMimeType = DetectAll(fb.Body),
                   !.AttachmentMimeType = DetectAll(AttachmentBodies(fb.Attachments))]


(***************************************************************************)
(* The metadata index: jsonMail, the document, addMail's upsert.           *)
(***************************************************************************)
\* mail.toJson followed by json.Unmarshal into a jsonMail: the persisted
\* projection of a mail (From rendered mailbox@host, attachments by name).
toJson(mail) ==
    [Uid |-> mail.Uid, Subject |-> mail.Subject,
     From |-> [i \in DOMAIN mail.From |-> <<"a", "@", mail.From[i]>>],
     Attachments |-> [i \in DOMAIN mail.Attachments |-> mail.Attachments[i].Filename],
     MimeType |-> mail.MimeType,
     MultipartMimeType |-> mail.MultipartMimeType,
     AttachmentMimeType |-> mail.AttachmentMimeType]

\* The index of the first entry of list with this Uid, 0 when there is none
\* (the loop of addMail).
RECURSIVE IndexOfUid(_, _, _)
IndexOfUid(list, uid, i) ==
    IF i > Len(list) THEN 0
    ELSE IF list[i].Uid = uid THEN i
         ELSE IndexOfUid(list, uid, i + 1)

\* addMail on ml.List: replace the entry with jm's Uid, or append.
UpsertAppendAlways(list, jm) == Append(list, jm)

UpsertMoveToEnd(list, jm) ==
    Append(SelectSeq(list, LAMBDA e : e.Uid # jm.Uid), jm)

Upsert(list, jm) ==
    LET i == IndexOfUid(list, jm.Uid, 1)
    IN  IF i > 0 THEN [list EXCEPT ![i] = jm] ELSE Append(list, jm)

\* A file: absent, a complete JSON document holding a list, a partially
\* written document, or content that is not a document of this program.
AbsentFile == [state |-> "absent", list |-> <<>>]
CompleteFile(list) == [state |-> "complete", list |-> list]
PartialFile == [state |-> "partial", list |-> <<>>]
MalformedFile == [state |-> "malformed", list |-> <<>>]

\* main's mailList before newMailList has returned one, or after it failed:
\* a nil pointer.
NilMailList == [isNil |-> TRUE, List |-> <<>>]

\* The entry an earlier run left in the index for the message uid.
OldEntry(uid) ==
    toJson([NewMail(RawMessage(uid, <<"b.com">>, "ok", <<>>, Nil)) EXCEPT !.Subject = "old"])

\* The documents an earlier run may have left at the index path.
InitialFiles ==
    {AbsentFile, MalformedFile, CompleteFile(<<OldEntry(1)>>)}

(***************************************************************************)
(* State.                                                                  *)
(***************************************************************************)
VARIABLES
    uids,        \* main: the identifiers imap.search returned (the request)
    toDeliver,   \* Message Source: identifiers not yet delivered
    srcPc,       \* UidFetch goroutine: "running" | "done" | "failed"
    prodPc,      \* goroutine of main running fetchMessages:
                 \*   "recv" | "send" | "close" | "ret" | "check" | "end"
    prodMail,    \* fetchMessages: the mail being sent, NoMail if none
    prodReader,  \* fetchMessages: whether mailReader is non-nil
    retErr,      \* the value fetchMessages returned
    err,         \* main's err variable, shared with its goroutine
    closeCount,  \* number of close(mailsChan) executed
    mainPc,      \* main: "ctor" | "ctorCheck" | "recv" | "addMail" | "saveOpen"
                 \*   | "saveWrite" | "saveRename" | "logout" | "dispatch" | "done"
    mails,       \* main: the buffer of received mails
    curMail,     \* main: the mail of the current iteration of the receive loop
    mailList,    \* main: [isNil, List]: whether mailList is a nil pointer, ml.List
    saveData,    \* save: the marshalled document being written
    disk,        \* the file at ml.path
    tmp,         \* the file at ml.path + ".tmp"
    mIdx,        \* dispatch loop: index of the current mail
    hIdx,        \* dispatch loop: index of the current handler
    fatalBy,     \* why the process ended early, Nil while it has not
    delivered,   \* history: identifiers in the order the source delivered them
    noReader,    \* history: identifiers whose GetBody returned nil
    addCalls,    \* history: the Uids addMail was called with, in order
    addResult,   \* history: what the last addMail returned, "pending" during it
    saveFailed,  \* history: whether some addMail returned an error
    prevDisk,    \* history: the file at ml.path when the current save began
    initFile,    \* history: the file at ml.path when the run began
    handled,     \* history: Handle calls, [handler, Uid]
    lastResult   \* history: what the last Handle call ended with

runVars == <<uids, toDeliver, srcPc, prodPc, prodMail, prodReader, retErr, err,
          closeCount, mainPc, mails, curMail, mailList, saveData, disk, tmp,
          mIdx, hIdx, fatalBy, delivered, noReader, addCalls, addResult,
          saveFailed, prevDisk, initFile, handled, lastResult>>

srcVars == <<uids, toDeliver, srcPc, delivered>>
prodVars == <<prodPc, prodMail, prodReader, retErr, noReader>>
indexVars == <<mailList, saveData, disk, tmp, addCalls, addResult, saveFailed, prevDisk,
               initFile>>
dispatchVars == <<mIdx, hIdx, handled, lastResult>>

\* The state of the separate specifications of mailList under concurrent
\* callers: idle during a run of main.
VARIABLES
    mlMu,        \* ml.mu: the caller holding the mutex, 0 when it is free
    mlList,      \* ml.List
    mlDisk,      \* the file at ml.path
    mlTmp,       \* the file at ml.path + ".tmp"
    callers      \* per caller of addMail: [pc, jm, i, data, result]

callVars == <<mlMu, mlList, mlDisk, mlTmp, callers>>

\* The state of the separate specification of the dispatch loop with the
\* handlers' effects on the output directory: idle during a run of main.
VARIABLES
    hMails,      \* main: the buffered mails the loop dispatches
    hIdxM,       \* dispatch loop: index of the current mail
    hIdxH,       \* dispatch loop: index of the current handler
    dirs,        \* the directories created under the output directory
    wrote,       \* history: the files written, [path, handler, Uid]
    last         \* history: the last Handle call, [handler, Uid, result,
                 \*   outcomes, writes, dirs]: what it returned, what its
                 \*   calls ended with, the paths it wrote and the
                 \*   directories it created

handlerVars == <<hMails, hIdxM, hIdxH, dirs, wrote, last>>

\* The state of the separate specification of the parser: one message and
\* the mail fetchMessages builds from it; idle during a run of main.
VARIABLES
    pRaw,        \* the message fetchMessages took from the source
    pMail        \* the mail it sends, NoMail before

parseVars == <<pRaw, pMail>>
auxVars == <<callVars, handlerVars, parseVars>>
vars == <<runVars, auxVars>>

Running == fatalBy = Nil /\ mainPc # "done"

InitRun ==
    /\ uids \in {1..n : n \in 0..MaxUid}
    /\ toDeliver = uids
    /\ srcPc = "running"
    /\ prodPc = "recv"
    /\ prodMail = NoMail
    /\ prodReader = FALSE
    /\ retErr = Nil
    /\ err = Nil
    /\ closeCount = 0
    /\ mainPc = "ctor"
    /\ mails = <<>>
    /\ curMail = NoMail
    /\ mailList = NilMailList
    /\ saveData = <<>>
    /\ disk \in InitialFiles
    /\ tmp = AbsentFile
    /\ mIdx = 1
    /\ hIdx = 1
    /\ fatalBy = Nil
    /\ delivered = <<>>
    /\ noReader = {}
    /\ addCalls = <<>>
    /\ addResult = Nil
    /\ saveFailed = FALSE
    /\ prevDisk = disk
    /\ initFile = disk
    /\ handled = <<>>
    /\ lastResult = Nil

\* No caller besides main: the concurrent-callers state stays idle.
CallIdle ==
    /\ mlMu = 0
    /\ mlList = <<>>
    /\ mlDisk = AbsentFile
    /\ mlTmp = AbsentFile
    /\ callers = <<>>

\* No Handle call yet.
NoCall == [handler |-> Nil, Uid |-> 0, result |-> Nil, outcomes |-> <<>>,
           writes |-> {}, dirs |-> {}]

\* The dispatch loop of the separate specification has nothing to do.
HandlersIdle ==
    /\ hMails = <<>>
    /\ hIdxM = 1
    /\ hIdxH = 1
    /\ dirs = {}
    /\ wrote = {}
    /\ last = NoCall

\* The parser of the separate specification has no message.
ParseIdle ==
    /\ pRaw = RawMessage(0, <<>>, "nil", <<>>, Nil)
    /\ pMail = NoMail

Init == InitRun /\ CallIdle /\ HandlersIdle /\ ParseIdle

(***************************************************************************)
(* The Message Source: the goroutine of fetchMessages calling UidFetch.    *)
(***************************************************************************)
\* UidFetch has delivered every requested message: it closes messages and
\* returns nil.
UidFetchDone ==
    /\ Running
    /\ srcPc = "running"
    /\ toDeliver = {}
    /\ srcPc' = "done"
    /\ UNCHANGED <<uids, toDeliver, delivered, prodVars, err, closeCount, mainPc,
                   mails, curMail, indexVars, dispatchVars, fatalBy>>
    /\ UNCHANGED auxVars

\* UidFetch fails (the connection drops): it closes messages and returns the
\* error, which the goroutine only logs.
UidFetchFail ==
    /\ Running
    /\ srcPc = "running"
    /\ srcPc' = "failed"
    /\ UNCHANGED <<uids, toDeliver, delivered, prodVars, err, closeCount, mainPc,
                   mails, curMail, indexVars, dispatchVars, fatalBy>>
    /\ UNCHANGED auxVars

(***************************************************************************)
(* imap.fetchMessages, run by the goroutine of main.                       *)
(***************************************************************************)
\* One iteration of `for message := range messages` up to its send: the
\* source hands over the message of uid (messages is unbuffered).
FetchMessagesNext(raw) ==
    /\ Running
    /\ srcPc = "running"
    /\ prodPc = "recv"
    /\ raw.uid \in toDeliver
    /\ toDeliver' = toDeliver \ {raw.uid}
    /\ delivered' = Append(delivered, raw.uid)
    /\ CASE raw.body = "nil" ->
              /\ prodPc' = "ret"
              /\ retErr' = "no reader"
              /\ noReader' = noReader \cup {raw.uid}
              /\ UNCHANGED <<prodMail, prodReader>>
         [] raw.body \in {"bad", "charset"} ->
              /\ prodPc' = "send"
              /\ prodMail' = MailOfCreateError(raw)
              /\ prodReader' = (raw.body = "charset")
              /\ UNCHANGED <<retErr, noReader>>
         [] OTHER ->
              /\ prodPc' = "send"
              /\ prodMail' = MailOfReader(raw)
              /\ prodReader' = TRUE
              /\ UNCHANGED <<retErr, noReader>>
    /\ UNCHANGED <<uids, srcPc, err, closeCount, mainPc, mails, curMail, indexVars,
                   dispatchVars, fatalBy>>
    /\ UNCHANGED auxVars

\* mailReader.Close() after the send, when there is a reader: it succeeds.
FetchMessagesClose ==
    /\ Running
    /\ prodPc = "close"
    /\ prodPc' = "recv"
    /\ prodReader' = FALSE
    /\ UNCHANGED <<srcVars, prodMail, retErr, noReader, err, closeCount, mainPc,
                   mails, curMail, indexVars, dispatchVars, fatalBy>>
    /\ UNCHANGED auxVars

\* mailReader.Close() fails: log.Fatal.
FetchMessagesCloseFail ==
    /\ Running
    /\ prodPc = "close"
    /\ fatalBy' = "close"
    /\ UNCHANGED <<srcVars, prodVars, err, closeCount, mainPc, mails, curMail,
                   indexVars, dispatchVars>>
    /\ UNCHANGED auxVars

\* messages is closed and drained: the range loop ends, fetchMessages
\* returns nil.
FetchMessagesEnd ==
    /\ Running
    /\ prodPc = "recv"
    /\ srcPc \in {"done", "failed"}
    /\ prodPc' = "ret"
    /\ retErr' = Nil
    /\ UNCHANGED <<srcVars, prodMail, prodReader, noReader, err, closeCount, mainPc,
                   mails, curMail, indexVars, dispatchVars, fatalBy>>
    /\ UNCHANGED auxVars

\* main.go:83, `err = imap.fetchMessages(...)`: the goroutine writes main's err.
GoAssignErr ==
    /\ Running
    /\ prodPc = "ret"
    /\ err' = retErr
    /\ prodPc' = "check"
    /\ UNCHANGED <<srcVars, prodMail, prodReader, retErr, noReader, closeCount,
                   mainPc, mails, curMail, indexVars, dispatchVars, fatalBy>>
    /\ UNCHANGED auxVars

\* main.go:83-86, `err != nil`: log.Fatal, else close(mailsChan).
GoCheckErrNoClose ==
    /\ Running
    /\ prodPc = "check"
    /\ IF err # Nil
       THEN /\ fatalBy' = "fetchMessages"
            /\ UNCHANGED prodPc
       ELSE /\ prodPc' = "end"
            /\ UNCHANGED fatalBy
    /\ UNCHANGED <<srcVars, prodMail, prodReader, retErr, noReader, err, closeCount,
                   mainPc, mails, curMail, indexVars, dispatchVars>>
    /\ UNCHANGED auxVars

GoCheckErr ==
    /\ Running
    /\ prodPc = "check"
    /\ IF err # Nil
       THEN /\ fatalBy' = "fetchMessages"
            /\ UNCHANGED <<prodPc, closeCount>>
       ELSE /\ closeCount' = closeCount + 1
            /\ prodPc' = "end"
            /\ UNCHANGED fatalBy
    /\ UNCHANGED <<srcVars, prodMail, prodReader, retErr, noReader, err, mainPc,
                   mails, curMail, indexVars, dispatchVars>>
    /\ UNCHANGED auxVars


(***************************************************************************)
(* main: index construction and the consumer loop.                         *)
(***************************************************************************)
\* newMailList on the file at the index path, when MkdirAll and ReadFile
\* meet no I/O error: [list, err].
newMailList(file) ==
    CASE file.state = "absent"   -> [ml |-> [isNil |-> FALSE, List |-> <<>>], err |-> Nil]
      [] file.state = "complete" -> [ml |-> [isNil |-> FALSE, List |-> file.list], err |-> Nil]
      [] OTHER                   -> [ml |-> NilMailList, err |-> "failed to parse metadata"]

\* main.go:98, `mailList, err := newMailList(...)`: writes main's err.
MainNewMailList ==
    /\ Running
    /\ mainPc = "ctor"
    /\ \E ioOk \in BOOLEAN :
         LET r == IF ioOk THEN newMailList(disk)
                  ELSE [ml |-> NilMailList, err |-> "failed to read metadata"]
         IN  /\ mailList' = r.ml
             /\ err' = r.err
    /\ mainPc' = "ctorCheck"
    /\ UNCHANGED <<srcVars, prodVars, closeCount, mails, curMail, saveData, disk, tmp,
                   addCalls, addResult, saveFailed, prevDisk, initFile, dispatchVars,
                   fatalBy>>
    /\ UNCHANGED auxVars

\* main.go:99-101, `if err != nil { log.Fatal(err) }`.
MainCheckNewMailList ==
    /\ Running
    /\ mainPc = "ctorCheck"
    /\ IF err # Nil
       THEN /\ fatalBy' = "newMailList"
            /\ UNCHANGED mainPc
       ELSE /\ mainPc' = "recv"
            /\ UNCHANGED fatalBy
    /\ UNCHANGED <<srcVars, prodVars, err, closeCount, mails, curMail, indexVars,
                   dispatchVars>>
    /\ UNCHANGED auxVars

\* main.go:106, the test that guards addMail.
ShouldIndexAny(mail) == TRUE

ShouldIndex(mail) == mail.Error = Nil

\* main.go:105, `mails = append(mails, mail)`.
BufferInFront(ms, mail) == <<mail>> \o ms

Buffer(ms, mail) == Append(ms, mail)

\* main.go:104-106: the loop receives the mail fetchMessages is sending
\* (mailsChan is unbuffered: the send completes with this receive), buffers
\* it, and goes on to addMail when the mail carries no error.
MainReceive ==
    /\ Running
    /\ mainPc = "recv"
    /\ prodPc = "send"
    /\ mails' = Buffer(mails, prodMail)
    /\ prodMail' = NoMail
    /\ prodPc' = IF prodReader THEN "close" ELSE "recv"
    /\ IF ShouldIndex(prodMail)
       THEN /\ mainPc' = "addMail"
            /\ curMail' = prodMail
       ELSE UNCHANGED <<mainPc, curMail>>
    /\ UNCHANGED <<srcVars, prodReader, retErr, noReader, err, closeCount, indexVars,
                   dispatchVars, fatalBy>>
    /\ UNCHANGED auxVars

\* main.go:104: the range loop ends once mailsChan is closed.
FetchCompleteAnytime == TRUE

FetchComplete == closeCount > 0

MainReceiveClosed ==
    /\ Running
    /\ mainPc = "recv"
    /\ FetchComplete
    /\ mainPc' = "logout"
    /\ UNCHANGED <<srcVars, prodVars, err, closeCount, mails, curMail, indexVars,
                   dispatchVars, fatalBy>>
    /\ UNCHANGED auxVars

(***************************************************************************)
(* mailList.addMail and mailList.save, called from the consumer loop.      *)
(***************************************************************************)
\* addMail returns e to main.go:107-111: an error is logged, and the loop
\* goes on to the next receive.
AddMailReturnFatal(e) ==
    /\ addResult' = IF e = Nil THEN "ok" ELSE e
    /\ saveFailed' = (saveFailed \/ e # Nil)
    /\ curMail' = NoMail
    /\ IF e = Nil
       THEN /\ mainPc' = "recv"
            /\ UNCHANGED fatalBy
       ELSE /\ fatalBy' = "addMail"
            /\ UNCHANGED mainPc

AddMailReturn(e) ==
    /\ addResult' = IF e = Nil THEN "ok" ELSE e
    /\ saveFailed' = (saveFailed \/ e # Nil)
    /\ curMail' = NoMail
    /\ mainPc' = "recv"
    /\ UNCHANGED fatalBy

\* addMail up to its call of save, and save's MarshalIndent: the upsert of
\* ml.List in memory. A nil mailList panics at ml.mu.Lock().
MainAddMail ==
    /\ Running
    /\ mainPc = "addMail"
    /\ addCalls' = Append(addCalls, curMail.Uid)
    /\ addResult' = "pending"
    /\ IF mailList.isNil
       THEN /\ fatalBy' = "panic"
            /\ UNCHANGED <<mailList, saveData, prevDisk, mainPc>>
       ELSE /\ mailList' = [mailList EXCEPT !.List = Upsert(mailList.List, toJson(curMail))]
            /\ saveData' = mailList'.List
            /\ prevDisk' = disk
            /\ mainPc' = "saveOpen"
            /\ UNCHANGED fatalBy
    /\ UNCHANGED <<srcVars, prodVars, err, closeCount, mails, curMail, disk, tmp,
                   saveFailed, initFile, dispatchVars>>
    /\ UNCHANGED auxVars

\* save, os.WriteFile(tmpPath): the temporary file is created or truncated.
MainSaveOpenInPlace ==
    /\ Running
    /\ mainPc = "saveOpen"
    /\ disk' = PartialFile
    /\ mainPc' = "saveWrite"
    /\ UNCHANGED <<srcVars, prodVars, err, closeCount, mails, curMail, mailList,
                   saveData, tmp, addCalls, addResult, saveFailed, prevDisk, initFile,
                   dispatchVars, fatalBy>>
    /\ UNCHANGED auxVars

MainSaveOpen ==
    /\ Running
    /\ mainPc = "saveOpen"
    /\ tmp' = PartialFile
    /\ mainPc' = "saveWrite"
    /\ UNCHANGED <<srcVars, prodVars, err, closeCount, mails, curMail, mailList,
                   saveData, disk, addCalls, addResult, saveFailed, prevDisk, initFile,
                   dispatchVars, fatalBy>>
    /\ UNCHANGED auxVars

\* save, os.WriteFile(tmpPath) cannot open the temporary file.
MainSaveOpenFail ==
    /\ Running
    /\ mainPc = "saveOpen"
    /\ AddMailReturn("failed to write temporary file")
    /\ UNCHANGED <<srcVars, prodVars, err, closeCount, mails, mailList, saveData,
                   disk, tmp, addCalls, prevDisk, initFile, dispatchVars>>
    /\ UNCHANGED auxVars

\* save, os.WriteFile(tmpPath) writes all of the document.
MainSaveWrite ==
    /\ Running
    /\ mainPc = "saveWrite"
    /\ tmp' = CompleteFile(saveData)
    /\ mainPc' = "saveRename"
    /\ UNCHANGED <<srcVars, prodVars, err, closeCount, mails, curMail, mailList,
                   saveData, disk, addCalls, addResult, saveFailed, prevDisk, initFile,
                   dispatchVars, fatalBy>>
    /\ UNCHANGED auxVars

\* save, os.WriteFile(tmpPath) fails midway: the temporary file stays partial.
MainSaveWriteFail ==
    /\ Running
    /\ mainPc = "saveWrite"
    /\ AddMailReturn("failed to write temporary file")
    /\ UNCHANGED <<srcVars, prodVars, err, closeCount, mails, mailList, saveData,
                   disk, tmp, addCalls, prevDisk, initFile, dispatchVars>>
    /\ UNCHANGED auxVars

\* save, os.Rename(tmpPath, ml.path) succeeds: save and addMail return nil.
MainSaveRenameSkipped ==
    /\ Running
    /\ mainPc = "saveRename"
    /\ tmp' = AbsentFile
    /\ AddMailReturn(Nil)
    /\ UNCHANGED <<srcVars, prodVars, err, closeCount, mails, mailList, saveData,
                   disk, addCalls, prevDisk, initFile, dispatchVars>>
    /\ UNCHANGED auxVars

MainSaveRename ==
    /\ Running
    /\ mainPc = "saveRename"
    /\ disk' = tmp
    /\ tmp' = AbsentFile
    /\ AddMailReturn(Nil)
    /\ UNCHANGED <<srcVars, prodVars, err, closeCount, mails, mailList, saveData,
                   addCalls, prevDisk, initFile, dispatchVars>>
    /\ UNCHANGED auxVars

\* save, os.Rename fails: the temporary file is removed.
MainSaveRenameFail ==
    /\ Running
    /\ mainPc = "saveRename"
    /\ tmp' = AbsentFile
    /\ AddMailReturn("failed to save metadata")
    /\ UNCHANGED <<srcVars, prodVars, err, closeCount, mails, mailList, saveData,
                   disk, addCalls, prevDisk, initFile, dispatchVars>>
    /\ UNCHANGED auxVars


(***************************************************************************)
(* main: logout and the dispatch loop over the buffered mails.             *)
(***************************************************************************)
\* main.go:115: imap.Client.Logout() succeeds.
MainLogout ==
    /\ Running
    /\ mainPc = "logout"
    /\ mainPc' = "dispatch"
    /\ UNCHANGED <<srcVars, prodVars, err, closeCount, mails, curMail, indexVars,
                   dispatchVars, fatalBy>>
    /\ UNCHANGED auxVars

\* main.go:115-117: Logout fails, log.Fatal.
MainLogoutFail ==
    /\ Running
    /\ mainPc = "logout"
    /\ fatalBy' = "logout"
    /\ UNCHANGED <<srcVars, prodVars, err, closeCount, mainPc, mails, curMail,
                   indexVars, dispatchVars>>
    /\ UNCHANGED auxVars

\* main.go:120-124: the handlers, in list order.
Handlers == <<"attachment", "pdf", "text">>

\* The configuration: the accepted attachment types, the subject filters.
ConfigAttachmentMimetypes == {"application/pdf"}
ConfigMailSubjects == {"new"}

\* search.Search.Find: whether data matches one of the configured tokens.
SearchFind(search, data) == data \in search

\* mail.getDirectoryName reads mail.From[0]: it panics on an empty From.
DirectoryNamePanics(mail) == mail.From = <<>>

HasHtmlBody(mail) == \E i \in DOMAIN mail.Body : Sniff(mail.Body[i]) = "text/html; charset=utf-8"

\* What a Handle call on a mail can end with: "ok" (nil), "error" (an I/O
\* or render error it returns), "panic".
AttachmentHandle(mail) ==
    IF DirectoryNamePanics(mail) THEN {"panic"}
    ELSE IF \E i \in DOMAIN mail.Attachments :
                SearchFind(ConfigAttachmentMimetypes, mail.Attachments[i].Mimetype)
         THEN {"ok", "error"}
         ELSE {"ok"}

PDFHandle(mail) ==
    IF ~SearchFind(ConfigMailSubjects, mail.Subject) THEN {"ok"}
    ELSE IF ~HasHtmlBody(mail) THEN {"ok", "error"}
    ELSE IF DirectoryNamePanics(mail) THEN {"error", "panic"}
    ELSE {"ok", "error"}

TextHandle(mail) ==
    IF Len(mail.Body) = 0 THEN {"ok"}
    ELSE IF DirectoryNamePanics(mail) THEN {"panic"}
    ELSE {"ok", "error"}

Handle(handler, mail) ==
    CASE handler = "attachment" -> AttachmentHandle(mail)
      [] handler = "pdf"        -> PDFHandle(mail)
      [] OTHER                  -> TextHandle(mail)

\* main.go:132, the test that keeps error-carrying mails from the handlers.
ShouldSkip(mail) == mail.Error # Nil

\* main.go:131-136: an error-carrying mail is logged and skipped.
MainDispatchError ==
    /\ Running
    /\ mainPc = "dispatch"
    /\ mIdx <= Len(mails)
    /\ ShouldSkip(mails[mIdx])
    /\ mIdx' = mIdx + 1
    /\ UNCHANGED <<srcVars, prodVars, err, closeCount, mainPc, mails, curMail,
                   indexVars, hIdx, handled, lastResult, fatalBy>>
    /\ UNCHANGED auxVars

\* main.go:139-143: the next handler of the list handles the current mail;
\* its error is logged; after the last handler the loop moves on.
MainHandle ==
    /\ Running
    /\ mainPc = "dispatch"
    /\ mIdx <= Len(mails)
    /\ ~ShouldSkip(mails[mIdx])
    /\ \E result \in Handle(Handlers[hIdx], mails[mIdx]) :
         /\ handled' = Append(handled, [handler |-> Handlers[hIdx], Uid |-> mails[mIdx].Uid])
         /\ lastResult' = result
         /\ IF result = "panic"
            THEN /\ fatalBy' = "panic"
                 /\ UNCHANGED <<mIdx, hIdx>>
            ELSE /\ UNCHANGED fatalBy
                 /\ IF hIdx < Len(Handlers)
                    THEN /\ hIdx' = hIdx + 1
                         /\ UNCHANGED mIdx
                    ELSE /\ hIdx' = 1
                         /\ mIdx' = mIdx + 1
    /\ UNCHANGED <<srcVars, prodVars, err, closeCount, mainPc, mails, curMail,
                   indexVars>>
    /\ UNCHANGED auxVars

\* main.go:149: every buffered mail was dispatched, main returns.
MainDone ==
    /\ Running
    /\ mainPc = "dispatch"
    /\ mIdx > Len(mails)
    /\ mainPc' = "done"
    /\ UNCHANGED <<srcVars, prodVars, err, closeCount, mails, curMail, indexVars,
                   dispatchVars, fatalBy>>
    /\ UNCHANGED auxVars

(***************************************************************************)
(* The specification.                                                      *)
(***************************************************************************)
Next ==
    \/ UidFetchDone
    \/ UidFetchFail
    \/ \E u \in UIDs : \E raw \in RawMessages(u) : FetchMessagesNext(raw)
    \/ FetchMessagesClose
    \/ FetchMessagesCloseFail
    \/ FetchMessagesEnd
    \/ GoAssignErr
    \/ GoCheckErr
    \/ MainNewMailList
    \/ MainCheckNewMailList
    \/ MainReceive
    \/ MainReceiveClosed
    \/ MainAddMail
    \/ MainSaveOpen
    \/ MainSaveOpenFail
    \/ MainSaveWrite
    \/ MainSaveWriteFail
    \/ MainSaveRename
    \/ MainSaveRenameFail
    \/ MainLogout
    \/ MainLogoutFail
    \/ MainDispatchError
    \/ MainHandle
    \/ MainDone

Spec == Init /\ [][Next]_vars


(***************************************************************************)
(* Properties.                                                             *)
(***************************************************************************)
\* the mails of ms with this Uid
MailsOf(ms, uid) == {i \in DOMAIN ms : ms[i].Uid = uid}

ErrorMails == {i \in DOMAIN mails : mails[i].Error # Nil}

GoodMails == {i \in DOMAIN mails : mails[i].Error = Nil}

\* C1: when mailsChan is closed, exactly one Mail per requested identifier
\* has been delivered on it (N in all), and it was closed exactly once.
C1_ClosedStreamHoldsAllRequested ==
    closeCount > 0 =>
        /\ closeCount = 1
        /\ Len(mails) = Cardinality(uids)
        /\ \A u \in uids : Cardinality(MailsOf(mails, u)) = 1

\* C2: a read or parse error of one message (reader creation, part walk,
\* closing the message's reader) gives one error-carrying Mail for that
\* identifier only and never ends the run: the messages after it are still
\* parsed and delivered.
C2_PerMessageErrorNeverAborts ==
    /\ \A i \in ErrorMails : Cardinality(MailsOf(mails, mails[i].Uid)) = 1
    /\ fatalBy # "close"

\* C3: a message whose GetBody returns nil is delivered on mailsChan as a
\* Mail with a non-nil Error, is neither indexed nor handled, and does not
\* keep the remaining messages from being processed.
C3_NoReaderDeliveredAsErrorMail ==
    /\ \A u \in noReader :
          /\ \E i \in ErrorMails : mails[i].Uid = u
          /\ \A i \in DOMAIN addCalls : addCalls[i] # u
          /\ \A i \in DOMAIN handled : handled[i].Uid # u
    /\ fatalBy # "fetchMessages"

\* C4: when UidFetch itself fails, the run fails fatally: it never closes
\* mailsChan as if the fetch had completed and never reaches the dispatch
\* phase or Done.
C4_SourceFailureIsFatal ==
    srcPc = "failed" =>
        /\ closeCount = 0
        /\ mainPc \notin {"logout", "dispatch", "done"}

\* C5: a Mail whose Error is set is never passed to addMail and never to a
\* handler; the dispatch loop only logs it.
C5_ErrorMailNeverIndexedNorHandled ==
    /\ \A i \in ErrorMails :
          /\ \A k \in DOMAIN addCalls : addCalls[k] # mails[i].Uid
          /\ \A k \in DOMAIN handled : handled[k].Uid # mails[i].Uid
    /\ mainPc \in {"addMail", "saveOpen", "saveWrite", "saveRename"} => curMail.Error = Nil

\* an error-carrying mail went through a whole run that indexed and handled
\* another mail
C5_Witness ==
    /\ mainPc = "done"
    /\ ErrorMails # {}
    /\ addCalls # <<>>
    /\ handled # <<>>


\* The Handle calls the dispatch loop owes the mails ms: for each mail
\* without an error, in buffer order, the three handlers in list order.
RECURSIVE ExpectedHandled(_)
ExpectedHandled(ms) ==
    IF ms = <<>> THEN <<>>
    ELSE (IF Head(ms).Error = Nil
          THEN [h \in DOMAIN Handlers |-> [handler |-> Handlers[h], Uid |-> Head(ms).Uid]]
          ELSE <<>>) \o ExpectedHandled(Tail(ms))

IsPrefix(s, t) == Len(s) <= Len(t) /\ SubSeq(t, 1, Len(s)) = s

\* C6: every buffered Mail without an error is handled exactly once by each
\* of Attachment, PDF, Text, in this order; a handler failing on one mail
\* keeps neither the later handlers of that mail nor the handlers of the
\* later mails from being invoked: once the dispatch loop is over, every
\* owed Handle call was made.
C6_EveryHandlerRunsOnEveryGoodMail ==
    /\ IsPrefix(handled, ExpectedHandled(mails))
    /\ (mainPc = "done" \/ (mainPc = "dispatch" /\ fatalBy # Nil)) =>
           handled = ExpectedHandled(mails)

\* C7: no Handle call (and no step of the dispatch loop) happens before
\* mailsChan is closed and the consumer loop has received every Mail the
\* producer made.
C7_DispatchOnlyAfterFetch ==
    (handled # <<>> \/ mIdx > 1 \/ mainPc \in {"dispatch", "done"}) =>
        /\ closeCount = 1
        /\ prodPc = "end"
        /\ Len(mails) + Cardinality(noReader) = Len(delivered)

\* a handler ran in a run that fetched two mails
C7_Witness ==
    /\ handled # <<>>
    /\ Len(mails) = 2

EntriesOf(list, uid) == {i \in DOMAIN list : list[i].Uid = uid}

Fresh == initFile = AbsentFile

\* the mail of the buffer addMail was called with for uid
UpsertedMail(uid) == mails[CHOOSE i \in DOMAIN mails : mails[i].Uid = uid]

\* C8 as stated: after N upserts of N distinct identifiers into a fresh
\* index the persisted document holds exactly N entries (and the list one
\* entry per upserted identifier, carrying its latest Subject).
C8_PersistedHoldsEveryUpsert ==
    /\ \A u \in SeqToSet(addCalls) :
          /\ Cardinality(EntriesOf(mailList.List, u)) = 1
          /\ \A i \in EntriesOf(mailList.List, u) :
                mailList.List[i].Subject = UpsertedMail(u).Subject
    /\ (Fresh /\ addResult \notin {Nil, "pending"}) => Len(disk.list) = Len(addCalls)

\* C8, amended: addMail is keyed by Identifier: the list holds exactly one
\* entry per upserted identifier, carrying the Subject of its latest upsert
\* (also when an entry of an earlier run with another Subject was loaded);
\* and after N upserts of N distinct identifiers into a fresh index, the
\* last of which returned without error, the persisted document holds
\* exactly N entries.
C8_UpsertKeyedByIdentifier ==
    /\ \A u \in SeqToSet(addCalls) :
          /\ Cardinality(EntriesOf(mailList.List, u)) = 1
          /\ \A i \in EntriesOf(mailList.List, u) :
                mailList.List[i] = toJson(UpsertedMail(u))
    /\ \A u \in UIDs : Cardinality(EntriesOf(mailList.List, u)) <= 1
    /\ Fresh => Len(mailList.List) = Len(addCalls)
    /\ (Fresh /\ addResult = "ok") =>
           /\ disk.state = "complete"
           /\ Len(disk.list) = Len(addCalls)
           /\ \A u \in SeqToSet(addCalls) : Cardinality(EntriesOf(disk.list, u)) = 1

\* the identifier an earlier run indexed with Subject "old" was upserted
\* again with Subject "new", and a second identifier after it, persisted
C8_Witness ==
    /\ initFile = CompleteFile(<<OldEntry(1)>>)
    /\ addCalls = <<1, 2>>
    /\ addResult = "ok"
    /\ Len(disk.list) = 2
    /\ disk.list[1].Subject = "new"

\* two identifiers upserted into a fresh index and persisted
C8_WitnessFresh ==
    /\ Fresh
    /\ Len(addCalls) = 2
    /\ addResult = "ok"
    /\ Len(disk.list) = 2

\* C9: at every point, inside save included (before, during and after the
\* write of the temporary file, at the rename), the file at the index path
\* is the previously committed document or the complete new one, never a
\* partial one; until the rename succeeds it is the previous document.
C9_IndexFileNeverPartial ==
    /\ disk.state # "partial"
    /\ disk = prevDisk \/ disk = CompleteFile(saveData)
    /\ mainPc \in {"saveOpen", "saveWrite", "saveRename"} => disk = prevDisk
    /\ addResult \notin {Nil, "pending", "ok"} => disk = prevDisk
    /\ disk = initFile \/ (disk.state = "complete" /\ addCalls # <<>>)

\* the write of the temporary file failed midway over a committed document
C9_Witness ==
    /\ tmp.state = "partial"
    /\ addResult = "failed to write temporary file"
    /\ disk = CompleteFile(<<OldEntry(1)>>)
    /\ mailList.List # disk.list

AllGoodUpserted == \A i \in GoodMails : \E k \in DOMAIN addCalls : addCalls[k] = mails[i].Uid

\* C10: when an upsert fails to persist, addMail returns the error, the
\* persisted document is unchanged, and the consumer loop goes on: it is
\* back at the receive, the run is not ended, and when the loop is over
\* every received Mail without an error was upserted.
C10_PersistFailureDoesNotAbort ==
    [][ /\ (addResult = "pending" /\ addResult' \notin {"pending", "ok"}) =>
              /\ disk' = disk
              /\ disk' = prevDisk
              /\ mainPc' = "recv"
              /\ fatalBy' = Nil
        /\ mainPc' \in {"logout", "dispatch", "done"} => AllGoodUpserted'
      ]_vars

\* an upsert failed to persist and the next mail was upserted and persisted
C10_Witness ==
    /\ saveFailed
    /\ Len(addCalls) = 2
    /\ addResult = "ok"
    /\ Len(disk.list) = 2

(***************************************************************************)
(* mailList under concurrent callers of addMail: each caller runs addMail  *)
(* once, its steps interleaved with the other callers' steps.              *)
(***************************************************************************)
NumCallers == 2
Callers == 1..NumCallers

\* The entries the callers upsert: one per identifier.
CallerEntries == {toJson(NewMail(RawMessage(u, <<"b.com">>, "ok", <<>>, Nil))) : u \in UIDs}

InitCaller(jm) == [pc |-> "call", jm |-> jm, i |-> 0, data |-> <<>>, result |-> Nil]

InitCallers ==
    /\ InitRun /\ uids = {} /\ disk = AbsentFile
    /\ mlMu = 0
    /\ mlList \in {<<>>, <<OldEntry(1)>>}
    /\ mlDisk = IF mlList = <<>> THEN AbsentFile ELSE CompleteFile(mlList)
    /\ mlTmp = AbsentFile
    /\ callers \in [Callers -> {InitCaller(jm) : jm \in CallerEntries}]
    /\ HandlersIdle
    /\ ParseIdle

\* mail.go:98, ml.mu.Lock(): the caller goes on once the mutex is free.
AddMailLockFree(c) ==
    /\ callers[c].pc = "call"
    /\ mlMu' = c
    /\ callers' = [callers EXCEPT ![c].pc = "lookup"]
    /\ UNCHANGED <<mlList, mlDisk, mlTmp, runVars, handlerVars, parseVars>>

AddMailLock(c) ==
    /\ callers[c].pc = "call"
    /\ mlMu = 0
    /\ mlMu' = c
    /\ callers' = [callers EXCEPT ![c].pc = "lookup"]
    /\ UNCHANGED <<mlList, mlDisk, mlTmp, runVars, handlerVars, parseVars>>

\* mail.go:113-119, the loop that looks for an entry with the Uid.
AddMailLookup(c) ==
    /\ callers[c].pc = "lookup"
    /\ callers' = [callers EXCEPT ![c].pc = "store",
                                  ![c].i = IndexOfUid(mlList, callers[c].jm.Uid, 1)]
    /\ UNCHANGED <<mlMu, mlList, mlDisk, mlTmp, runVars, handlerVars, parseVars>>

\* mail.go:115 or 122, the write of ml.List, and save's MarshalIndent.
AddMailStore(c) ==
    /\ callers[c].pc = "store"
    /\ mlList' = IF callers[c].i > 0 /\ callers[c].i <= Len(mlList)
                 THEN [mlList EXCEPT ![callers[c].i] = callers[c].jm]
                 ELSE Append(mlList, callers[c].jm)
    /\ callers' = [callers EXCEPT ![c].pc = "saveOpen", ![c].data = mlList']
    /\ UNCHANGED <<mlMu, mlDisk, mlTmp, runVars, handlerVars, parseVars>>

\* addMail returns e: the deferred ml.mu.Unlock() runs.
AddMailUnlock(c, e) ==
    /\ callers' = [callers EXCEPT ![c].pc = "returned",
                                  ![c].result = IF e = Nil THEN "ok" ELSE e]
    /\ mlMu' = IF mlMu = c THEN 0 ELSE mlMu

\* save, os.WriteFile(tmpPath): the temporary file is created or truncated.
SaveOpen(c) ==
    /\ callers[c].pc = "saveOpen"
    /\ mlTmp' = PartialFile
    /\ callers' = [callers EXCEPT ![c].pc = "saveWrite"]
    /\ UNCHANGED <<mlMu, mlList, mlDisk, runVars, handlerVars, parseVars>>

SaveOpenFail(c) ==
    /\ callers[c].pc = "saveOpen"
    /\ AddMailUnlock(c, "failed to write temporary file")
    /\ UNCHANGED <<mlList, mlDisk, mlTmp, runVars, handlerVars, parseVars>>

\* save, os.WriteFile(tmpPath) writes all of the document, or fails midway.
SaveWrite(c) ==
    /\ callers[c].pc = "saveWrite"
    /\ mlTmp' = CompleteFile(callers[c].data)
    /\ callers' = [callers EXCEPT ![c].pc = "saveRename"]
    /\ UNCHANGED <<mlMu, mlList, mlDisk, runVars, handlerVars, parseVars>>

SaveWriteFail(c) ==
    /\ callers[c].pc = "saveWrite"
    /\ AddMailUnlock(c, "failed to write temporary file")
    /\ UNCHANGED <<mlList, mlDisk, mlTmp, runVars, handlerVars, parseVars>>

\* save, os.Rename(tmpPath, ml.path): the temporary file takes the place of
\* the index file; a failed rename removes the temporary file.
SaveRename(c) ==
    /\ callers[c].pc = "saveRename"
    /\ mlTmp.state # "absent"
    /\ mlDisk' = mlTmp
    /\ mlTmp' = AbsentFile
    /\ AddMailUnlock(c, Nil)
    /\ UNCHANGED <<mlList, runVars, handlerVars, parseVars>>

SaveRenameFail(c) ==
    /\ callers[c].pc = "saveRename"
    /\ mlTmp' = AbsentFile
    /\ AddMailUnlock(c, "failed to save metadata")
    /\ UNCHANGED <<mlList, mlDisk, runVars, handlerVars, parseVars>>

NextCallers ==
    \E c \in Callers :
        \/ AddMailLock(c)
        \/ AddMailLookup(c)
        \/ AddMailStore(c)
        \/ SaveOpen(c)
        \/ SaveOpenFail(c)
        \/ SaveWrite(c)
        \/ SaveWriteFail(c)
        \/ SaveRename(c)
        \/ SaveRenameFail(c)

SpecCallers == InitCallers /\ [][NextCallers]_vars

\* the callers between ml.mu.Lock() and the return of addMail
InAddMail == {c \in Callers : callers[c].pc \notin {"call", "returned"}}

\* C11: concurrent calls of addMail exclude each other for the whole of the
\* upsert and the persist: at most one caller is inside addMail and it holds
\* the mutex, the index file is never a partial document, the temporary file
\* holds only the document of the caller inside, and no upsert is lost (the
\* Uid of every caller past its store is in ml.List exactly once).
C11_AddMailMutuallyExclusive ==
    /\ Cardinality(InAddMail) <= 1
    /\ \A c \in InAddMail : mlMu = c
    /\ mlDisk.state # "partial"
    /\ \A c \in Callers :
         /\ callers[c].pc = "saveRename" => mlTmp = CompleteFile(callers[c].data)
         /\ callers[c].pc \in {"saveOpen", "saveWrite", "saveRename", "returned"} =>
              Cardinality(EntriesOf(mlList, callers[c].jm.Uid)) = 1
         /\ callers[c].result = "ok" =>
              /\ mlDisk.state = "complete"
              /\ EntriesOf(mlDisk.list, callers[c].jm.Uid) # {}

\* two callers upserted the same new Uid, one waited for the other, and both
\* saved
C11_Witness ==
    /\ \A c \in Callers : callers[c].result = "ok"
    /\ \E c, d \in Callers : c # d /\ callers[c].jm.Uid = callers[d].jm.Uid
    /\ Len(mlList) = 1

\* C12: constructing the index from an absent file gives an empty index,
\* from a well-formed document the loaded index, and from a malformed
\* document an error: the run then ends fatally at the check that follows
\* the construction, without an upsert and without a write to the file.
C12_MalformedIndexIsFatal ==
    /\ (mainPc = "ctorCheck" /\ ~mailList.isNil) =>
          /\ initFile.state \in {"absent", "complete"}
          /\ mailList.List = initFile.list
    /\ initFile = MalformedFile =>
          /\ mailList.isNil
          /\ mainPc \in {"ctor", "ctorCheck"}
          /\ addCalls = <<>>
          /\ disk = initFile

\* the Uids of a sequence of mails
UidsOf(ms) == [i \in DOMAIN ms |-> ms[i].Uid]

\* the delivered messages for which fetchMessages built a Mail, in delivery
\* order
RECURSIVE WithMail(_)
WithMail(uidSeq) ==
    IF uidSeq = <<>> THEN <<>>
    ELSE IF Head(uidSeq) \in noReader THEN WithMail(Tail(uidSeq))
         ELSE <<Head(uidSeq)>> \o WithMail(Tail(uidSeq))

\* C13: the buffer of received mails is in the order in which the source
\* delivered the raw messages, none twice and none out of place: the Uids
\* of the buffer, followed by the Uid of the mail being sent if there is
\* one, are the delivered messages that got a Mail, in delivery order.
C13_BufferInDeliveryOrder ==
    WithMail(delivered) =
        IF prodPc = "send" THEN Append(UidsOf(mails), prodMail.Uid) ELSE UidsOf(mails)

\* the source delivered message 2 before message 1 and both were received
C13_Witness ==
    /\ delivered = <<2, 1>>
    /\ UidsOf(mails) = <<2, 1>>

(***************************************************************************)
(* The run under fair scheduling: a goroutine that can take a step is not  *)
(* held back forever.                                                      *)
(***************************************************************************)
\* the steps of the two goroutines of the fetch, and those of main
FetchNext ==
    \/ UidFetchDone
    \/ \E u \in UIDs : \E raw \in RawMessages(u) : FetchMessagesNext(raw)
    \/ FetchMessagesClose
    \/ FetchMessagesEnd
    \/ GoAssignErr
    \/ GoCheckErr

MainNext ==
    \/ MainNewMailList
    \/ MainCheckNewMailList
    \/ MainReceive
    \/ MainReceiveClosed
    \/ MainAddMail
    \/ MainSaveOpen
    \/ MainSaveWrite
    \/ MainSaveRename
    \/ MainLogout
    \/ MainDispatchError
    \/ MainHandle
    \/ MainDone

FairSpec == Spec /\ WF_vars(FetchNext) /\ WF_vars(MainNext)

\* C14: the pipeline neither deadlocks nor drops a mail: under fair
\* scheduling every run ends, either fatally or with the stream closed and
\* the dispatch phase finished, and then every Mail the producer sent is in
\* the consumer's buffer.
C14_PipelineEndsAndDropsNothing ==
    <>(\/ fatalBy # Nil
       \/ /\ mainPc = "done"
          /\ closeCount = 1
          /\ prodPc = "end"
          /\ UidsOf(mails) = WithMail(delivered))

\* the run finished its dispatch phase with two mails received
C14_Witness ==
    /\ mainPc = "done"
    /\ fatalBy = Nil
    /\ Len(mails) = 2

\* C15: the index never deletes a record: at every step the list is at
\* least as long as before, every position keeps its Uid (so every
\* identifier loaded or upserted earlier stays), and an entry changes only
\* by being replaced with the entry of the mail being upserted.
C15_IndexNeverDeletes ==
    [][/\ Len(mailList'.List) >= Len(mailList.List)
       /\ \A i \in DOMAIN mailList.List :
            /\ mailList'.List[i].Uid = mailList.List[i].Uid
            /\ \/ mailList'.List[i] = mailList.List[i]
               \/ /\ mainPc = "addMail"
                  /\ mailList'.List[i] = toJson(curMail)]_vars

\* message 1, already in the loaded index, was upserted after message 2 was
\* appended: entry 1 was replaced in place
C15_Witness ==
    /\ initFile = CompleteFile(<<OldEntry(1)>>)
    /\ addCalls = <<2, 1>>
    /\ Len(mailList.List) = 2
    /\ mailList.List[1].Uid = 1
    /\ mailList.List[1].Subject = "new"
    /\ mailList.List[2].Uid = 2

\* C16: every Mail received with Error unset has a non-empty From list, so
\* that the directory name, which reads From[0], is defined for every Mail
\* handed to a handler.
C16_GoodMailHasSender ==
    \A i \in DOMAIN mails : mails[i].Error = Nil => mails[i].From # <<>>

(***************************************************************************)
(* The handlers and the files they write.                                  *)
(*   a path is [dir, name]: dir is <<category, account, <<year, month>>,   *)
(*   host>>, name the file name in it                                      *)
(*   a run of Handle is [result, writes, dirs, outcomes]: what it returned *)
(*   ("ok" | "error" | "panic"), the paths it wrote, the directories it    *)
(*   created, and what each file-system or render call it made ended with  *)
(***************************************************************************)
\* h.username of the three handlers.
Account == "user"

\* mail.Date.Format("200601")
YearMonth(date) == <<date[1], date[2]>>

\* mail.getDirectoryName, for a mail with a sender.
getDirectoryName(mail, root, username) ==
    <<root, username, YearMonth(mail.Date), mail.From[1]>>

\* sanitizeSubject: unsafe characters become "_".
sanitizeSubject(subject) ==
    CASE subject = "re: new" -> "re_ new"
      [] OTHER               -> subject

\* mimeType: the part of a MIME label before its parameters.
mimeType(mime) ==
    CASE mime = "text/html; charset=utf-8"  -> "text/html"
      [] mime = "text/plain; charset=utf-8" -> "text/plain"
      [] OTHER                              -> mime

\* fmt.Sprintf("%s-%s-%d", safeSubject, date, mail.Uid) with an extension
NamedByMail(mail, ext) == <<sanitizeSubject(mail.Subject), mail.Date, mail.Uid, ext>>

Run(result, writes, ds, outcomes) ==
    [result |-> result, writes |-> writes, dirs |-> ds, outcomes |-> outcomes]

\* AttachmentHandler.Handle, what follows a failed os.WriteFile:
\* ENAMETOOLONG is logged and the loop continues, any other error returns.
OnWriteErrorReturn(e) == "return"

OnWriteError(e) == IF e = "toolong" THEN "continue" ELSE "return"

\* AttachmentHandler.Handle, the loop over mail.Attachments from the i-th.
RECURSIVE AttachmentLoop(_, _, _, _, _, _)
AttachmentLoop(mail, dir, i, writes, ds, outcomes) ==
    IF i > Len(mail.Attachments) THEN {Run("ok", writes, ds, outcomes)}
    ELSE IF ~SearchFind(ConfigAttachmentMimetypes, mail.Attachments[i].Mimetype)
    THEN AttachmentLoop(mail, dir, i + 1, writes, ds, Append(outcomes, "skip"))
    ELSE LET path == [dir |-> dir, name |-> mail.Attachments[i].Filename]
             made == ds \cup {dir}
             failed(e) ==
                 IF OnWriteError(e) = "continue"
                 THEN AttachmentLoop(mail, dir, i + 1, writes, made, Append(outcomes, e))
                 ELSE {Run("error", writes, made, Append(outcomes, e))}
         IN  {Run("error", writes, ds, Append(outcomes, "mkdirError"))}
             \cup AttachmentLoop(mail, dir, i + 1, writes \cup {path}, made,
                                 Append(outcomes, "written"))
             \cup failed("toolong")
             \cup failed("writeError")

AttachmentRuns(mail) ==
    IF DirectoryNamePanics(mail) THEN {Run("panic", {}, {}, <<>>)}
    ELSE AttachmentLoop(mail, getDirectoryName(mail, "attachment", Account), 1,
                        {}, {}, <<>>)

\* PDFHandler.Handle
PDFRuns(mail) ==
    IF ~SearchFind(ConfigMailSubjects, mail.Subject) THEN {Run("ok", {}, {}, <<>>)}
    ELSE {Run("error", {}, {}, <<"renderError">>)} \cup
         IF ~HasHtmlBody(mail) THEN {Run("ok", {}, {}, <<"noPage">>)}
         ELSE IF DirectoryNamePanics(mail) THEN {Run("panic", {}, {}, <<"rendered">>)}
         ELSE LET dir == getDirectoryName(mail, "mail", Account)
                  path == [dir |-> dir, name |-> NamedByMail(mail, ".pdf")]
              IN  {Run("error", {}, {}, <<"rendered", "mkdirError">>),
                   Run("error", {}, {dir}, <<"rendered", "writeError">>),
                   Run("ok", {path}, {dir}, <<"rendered", "written">>)}

\* TextHandler.Handle, the loop over mail.Body of a multipart mail.
RECURSIVE TextLoop(_, _, _, _, _)
TextLoop(mail, dir, i, writes, outcomes) ==
    IF i > Len(mail.Body) THEN {Run("ok", writes, {dir}, outcomes)}
    ELSE LET detected == mimeType(Sniff(mail.Body[i]))
             ext == IF detected = "text/plain" THEN ".txt" ELSE ".html"
             path == [dir |-> dir, name |-> NamedByMail(mail, ext)]
         IN  IF detected \in {"text/plain", "text/html"}
             THEN {Run("error", writes, {dir}, Append(outcomes, "writeError"))}
                  \cup TextLoop(mail, dir, i + 1, writes \cup {path},
                                Append(outcomes, "written"))
             ELSE TextLoop(mail, dir, i + 1, writes, Append(outcomes, "skip"))

\* TextHandler.Handle
TextRuns(mail) ==
    IF Len(mail.Body) = 0 THEN {Run("ok", {}, {}, <<>>)}
    ELSE IF DirectoryNamePanics(mail) THEN {Run("panic", {}, {}, <<>>)}
    ELSE LET dir == getDirectoryName(mail, "mail", Account)
             single(ext) ==
                 {Run("error", {}, {dir}, <<"writeError">>),
                  Run("ok", {[dir |-> dir, name |-> NamedByMail(mail, ext)]}, {dir},
                      <<"written">>)}
         IN  {Run("error", {}, {}, <<"mkdirError">>)} \cup
             CASE mimeType(mail.MimeType) = "text/plain" -> single(".txt")
               [] mimeType(mail.MimeType) = "text/html"  -> single(".html")
               [] mimeType(mail.MimeType) \in {"multipart/alternative", "multipart/mixed"} ->
                      TextLoop(mail, dir, 1, {}, <<>>)
               [] OTHER -> {Run("ok", {}, {dir}, <<>>)}

Runs(handler, mail) ==
    CASE handler = "attachment" -> AttachmentRuns(mail)
      [] handler = "pdf"        -> PDFRuns(mail)
      [] OTHER                  -> TextRuns(mail)

\* The mails fetchMessages builds from messages that parse without error:
\* an HTML body with a named PDF attachment, in either of two months; a
\* plain body with a named and an unnamed PDF attachment; a single plain
\* body; a single body under a top-level type that is not text; two plain
\* bodies; a plain body without a sender; an HTML and a plain body under
\* the top-level type multipart/related.
HandlerMails(uid) ==
    LET named == AttachmentPart(<<"d", "/", "a">>, "pdf")
        html  == RawMessage(uid, <<"b.com">>, "ok", <<InlinePart("html"), named>>, Nil)
        plain == RawMessage(uid, <<"b.com">>, "ok", <<InlinePart("plain")>>, Nil)
    IN  { MailOfReader(html),
          MailOfReader([html EXCEPT !.date = <<2024, 2, 2>>]),
          MailOfReader(RawMessage(uid, <<"b.com">>, "ok",
              <<InlinePart("plain"), AttachmentPart(<<"i", "n", "v">>, "pdf"),
                AttachmentPart(<<>>, "pdf")>>, Nil)),
          MailOfReader(plain),
          MailOfReader([plain EXCEPT !.hdrType = "text/calendar"]),
          MailOfReader(RawMessage(uid, <<"b.com">>, "ok",
              <<InlinePart("plain"), InlinePart("plain")>>, Nil)),
          MailOfReader(RawMessage(uid, <<>>, "ok", <<InlinePart("plain")>>, Nil)),
          MailOfReader([RawMessage(uid, <<"b.com">>, "ok",
                            <<InlinePart("html"), InlinePart("plain")>>, Nil)
                        EXCEPT !.hdrType = "multipart/related"]) }

\* main.go:131: the buffer holds one mail, or two of different identifiers.
InitHandlers ==
    /\ InitRun /\ uids = {} /\ disk = AbsentFile
    /\ CallIdle
    /\ hMails \in {<<a>> : a \in UNION {HandlerMails(u) : u \in UIDs}} \cup
                  UNION {{<<a, b>> : a \in HandlerMails(u), b \in HandlerMails(v)} :
                         <<u, v>> \in {w \in UIDs \X UIDs : w[1] # w[2]}}
    /\ hIdxM = 1
    /\ hIdxH = 1
    /\ dirs = {}
    /\ wrote = {}
    /\ last = NoCall
    /\ ParseIdle

\* main.go:139-143: the next handler of the list handles the current mail.
DispatchHandle ==
    /\ hIdxM <= Len(hMails)
    /\ last.result # "panic"
    /\ \E run \in Runs(Handlers[hIdxH], hMails[hIdxM]) :
         /\ last' = [handler |-> Handlers[hIdxH], Uid |-> hMails[hIdxM].Uid,
                     result |-> run.result, outcomes |-> run.outcomes,
                     writes |-> run.writes, dirs |-> run.dirs \ dirs]
         /\ wrote' = wrote \cup {[path |-> f, handler |-> Handlers[hIdxH],
                                  Uid |-> hMails[hIdxM].Uid] : f \in run.writes}
         /\ dirs' = dirs \cup run.dirs
         /\ IF run.result = "panic" THEN UNCHANGED <<hIdxM, hIdxH>>
            ELSE IF hIdxH < Len(Handlers)
                 THEN /\ hIdxH' = hIdxH + 1
                      /\ UNCHANGED hIdxM
                 ELSE /\ hIdxH' = 1
                      /\ hIdxM' = hIdxM + 1
    /\ UNCHANGED <<hMails, runVars, callVars, parseVars>>

NextHandlers == DispatchHandle

SpecHandlers == InitHandlers /\ [][NextHandlers]_vars

\* C17: no two Handle calls write the same file: a path written by one
\* (handler, mail) pair is written by no other pair.
C17_NoTwoCallsWriteOneFile ==
    \A w1, w2 \in wrote :
        w1.path = w2.path => (w1.handler = w2.handler /\ w1.Uid = w2.Uid)

\* the mail of the last Handle call
LastMail == hMails[CHOOSE i \in DOMAIN hMails : hMails[i].Uid = last.Uid]

WriteAborted(outcome) == outcome \in {"writeError", "mkdirError"}

\* C19: in the Attachment handler a path-too-long failure of one write does
\* not end the call: the loop goes on to the next attachment, every
\* attachment whose own write succeeded is written, and the call returns an
\* error only when another failure (not a path-too-long one) ended it;
\* otherwise it went through all attachments and returned nil.
C19_PathTooLongIsSwallowed ==
    (last.handler = "attachment" /\ \E i \in DOMAIN last.outcomes : last.outcomes[i] = "toolong") =>
        LET mail == LastMail
            n    == Len(last.outcomes)
            dir  == getDirectoryName(mail, "attachment", Account)
        IN  /\ \A i \in 1..n :
                  last.outcomes[i] = "toolong" => (i = Len(mail.Attachments) \/ n > i)
            /\ \A i \in 1..n :
                  last.outcomes[i] = "written" <=>
                      [dir |-> dir, name |-> mail.Attachments[i].Filename] \in last.writes
            /\ last.result = "error" <=> WriteAborted(last.outcomes[n])
            /\ ~WriteAborted(last.outcomes[n]) =>
                  /\ n = Len(mail.Attachments)
                  /\ last.result = "ok"

\* the write of the first attachment failed with a path too long, the
\* second attachment was written and the call returned nil
C19_Witness ==
    /\ last.handler = "attachment"
    /\ last.outcomes = <<"toolong", "written">>
    /\ last.result = "ok"
    /\ Cardinality(last.writes) = 1

IsMultipart(mime) == mime \in {"multipart/alternative", "multipart/mixed", "multipart/related"}

\* C20: the Text handler does nothing for a mail whose top-level type is
\* neither text/plain, text/html nor a multipart type: it returns nil,
\* writes no file and creates no directory.
C20_TextHandlerNoOpOnOtherTypes ==
    (/\ last.handler = "text"
     /\ mimeType(LastMail.MimeType) \notin {"text/plain", "text/html"}
     /\ ~IsMultipart(mimeType(LastMail.MimeType))) =>
        /\ last.result = "ok"
        /\ last.writes = {}
        /\ last.dirs = {}

(***************************************************************************)
(* The parser alone: fetchMessages on one message with a reader, over      *)
(* every sequence of at most MaxParts parts.                               *)
(***************************************************************************)
MaxParts == 2

\* The parts a reader may yield: inline parts read in full (plain, HTML,
\* empty), cut short, or failing; attachment parts, named or not, empty, or
\* failing at the read or at the file name.
PartShapes ==
    {InlinePart(d) : d \in {"plain", "html", ""}} \cup
    {[InlinePart("plain") EXCEPT !.read = r] : r \in {"unexpectedEOF", "error"}} \cup
    {AttachmentPart(<<"d", "/", "a">>, "pdf"), AttachmentPart(<<>>, "pdf"),
     AttachmentPart(<<"e">>, ""),
     [AttachmentPart(<<"d">>, "pdf") EXCEPT !.read = "unexpectedEOF"],
     [AttachmentPart(<<>>, "pdf") EXCEPT !.fnameErr = TRUE]}

RECURSIVE PartSeqs(_)
PartSeqs(n) ==
    IF n = 0 THEN {<<>>}
    ELSE LET shorter == PartSeqs(n - 1)
         IN  shorter \cup {Append(ps, p) : ps \in {q \in shorter : Len(q) = n - 1},
                                            p \in PartShapes}

InitParse ==
    /\ InitRun /\ uids = {} /\ disk = AbsentFile
    /\ CallIdle
    /\ HandlersIdle
    /\ pRaw \in {RawMessage(1, <<"b.com">>, "ok", parts, walkErr) :
                   parts \in PartSeqs(MaxParts), walkErr \in {Nil, "malformed part"}}
    /\ pMail = NoMail

\* part_001:243-267: fetchBody and the two detection loops.
ParseMessage ==
    /\ pMail = NoMail
    /\ pMail' = MailOfReader(pRaw)
    /\ UNCHANGED <<pRaw, runVars, callVars, handlerVars>>

NextParse == ParseMessage

SpecParse == InitParse /\ [][NextParse]_vars

\* the parts of the message of one kind, in order
PartsOfKind(kind) == SelectSeq(pRaw.parts, LAMBDA p : p.kind = kind)

\* the inline parts that were read in full
InlineRead == SelectSeq(PartsOfKind("inline"), LAMBDA p : p.read = "ok")

\* one label per non-empty buffer, in order
LabelsOf(buffers) ==
    LET nonEmpty == SelectSeq(buffers, LAMBDA b : b # "")
    IN  [i \in DOMAIN nonEmpty |-> Sniff(nonEmpty[i])]

Parsed == pMail # NoMail /\ pMail.Error = Nil

\* C18 as stated: a message with k inline parts and m attachment parts
\* parses to k bodies and m attachments, with at most k and m type labels,
\* one per non-empty body or attachment in the same order.
C18_CountsMatchParts ==
    Parsed =>
        LET k == Len(PartsOfKind("inline"))
            m == Len(PartsOfKind("attachment"))
        IN  /\ Len(pMail.Body) = k
            /\ Len(pMail.Attachments) = m
            /\ Len(pMail.MultipartMimeType) <= k
            /\ Len(pMail.AttachmentMimeType) <= m
            /\ pMail.MultipartMimeType = LabelsOf(pMail.Body)
            /\ pMail.AttachmentMimeType = LabelsOf(AttachmentBodies(pMail.Attachments))

\* C18, amended: the inline parts whose read ends in an unexpected end of
\* stream are dropped; the bodies are the other inline parts in order, the
\* attachments are the m attachment parts in order, and the label lists
\* hold one label per non-empty body or attachment in the same order.
C18_CountsMatchPartsRead ==
    Parsed =>
        LET k == Len(InlineRead)
            m == Len(PartsOfKind("attachment"))
        IN  /\ Len(pMail.Body) = k
            /\ \A i \in 1..k : pMail.Body[i] = InlineRead[i].data
            /\ Len(pMail.Attachments) = m
            /\ \A i \in 1..m : pMail.Attachments[i].Body = PartsOfKind("attachment")[i].data
            /\ Len(pMail.MultipartMimeType) <= k
            /\ Len(pMail.AttachmentMimeType) <= m
            /\ pMail.MultipartMimeType = LabelsOf(pMail.Body)
            /\ pMail.AttachmentMimeType = LabelsOf(AttachmentBodies(pMail.Attachments))

\* a message of an empty inline part and an empty attachment was parsed:
\* one body, one attachment, no label
C18_Witness ==
    /\ Parsed
    /\ Len(pMail.Body) = 1
    /\ Len(pMail.Attachments) = 1
    /\ pMail.MultipartMimeType = <<>>
    /\ pMail.AttachmentMimeType = <<>>

\* the path the Text handler gives a body of the mail with this extension
TextPath(mail, ext) ==
    [dir |-> getDirectoryName(mail, "mail", Account), name |-> NamedByMail(mail, ext)]

\* the extensions of the bodies of the mail by their sniffed types
SniffedExtensions(mail) ==
    {ext \in {".txt", ".html"} :
        \E i \in DOMAIN mail.Body :
            mimeType(Sniff(mail.Body[i])) = IF ext = ".txt" THEN "text/plain" ELSE "text/html"}

\* C21: a call of the Text handler that returns nil on a mail with bodies
\* has written, for any multipart top-level type, a .txt file for the
\* bodies sniffed as text/plain and a .html file for those sniffed as
\* text/html and nothing else, and for a text/plain or text/html top-level
\* type the one file of the corresponding extension.
C21_TextHandlerWritesByType ==
    (last.handler = "text" /\ last.result = "ok" /\ Len(LastMail.Body) > 0) =>
        LET mail == LastMail
            top  == mimeType(mail.MimeType)
        IN  /\ IsMultipart(top) =>
                  last.writes = {TextPath(mail, ext) : ext \in SniffedExtensions(mail)}
            /\ top = "text/plain" => last.writes = {TextPath(mail, ".txt")}
            /\ top = "text/html" => last.writes = {TextPath(mail, ".html")}

\* C22: the err variable shared by main and its goroutine loses no error
\* under any interleaving: once fetchMessages has returned an error the
\* stream is never closed, and main never goes past its check of the index
\* construction without an index.
C22_SharedErrLosesNoError ==
    /\ retErr # Nil => closeCount = 0
    /\ mainPc \notin {"ctor", "ctorCheck"} => ~mailList.isNil

\* C23: whenever addMail has returned without error the persisted document
\* holds exactly the in-memory list, whatever upserts and failed saves came
\* before, and the persisted document changes only to the list the index
\* holds in memory at that step: between successful saves it is a list the
\* index held earlier.
C23_PersistedFollowsMemory ==
    [][/\ addResult' = "ok" => disk' = CompleteFile(mailList'.List)
       /\ disk' # disk => /\ disk' = CompleteFile(mailList.List)
                          /\ addResult' = "ok"]_vars

\* the save of the first upsert failed, the second upsert saved: the
\* document holds both records
C23_Witness ==
    /\ Fresh
    /\ saveFailed
    /\ addCalls = <<1, 2>>
    /\ addResult = "ok"
    /\ Len(mailList.List) = 2
    /\ disk = CompleteFile(mailList.List)

====
